---- MODULE Spec2Model ----
(***************************************************************************)
(* Order-cancellation service with Axiom logging: the health monitor       *)
(* (AxiomHealthCheck), the Axiom client's ingest (AxiomClient), the log     *)
(* service's write and read paths (CancellationLogService) and the          *)
(* cancellation domain logic (CancelationService).                         *)
(***************************************************************************)
EXTENDS Integers, Sequences, FiniteSets, TLC

\* ------------------------------------------------------------------ bounds
\* Checks (check() calls) a behaviour of the monitor may start.
MaxChecks == 3
\* check() calls whose probe has not returned yet, at any one time.
MaxInFlight == 2
\* Timer handles setInterval may hand out in one behaviour.
MaxTimers == 2
\* Events in one batch handed to ingestEvents.
MaxEvents == 2
\* Log writes started by cancelOrder and not settled yet, at any one time.
MaxPending == 2
\* Records in one page of a query result.
MaxPageLen == 1
\* queryWithAPL calls one read operation of the log service may make.
MaxQueries == 2
\* The greatest limit a caller passes to the list operations.
MaxLimit == 2
\* Records in the logs one getCancellationStats call computes over.
MaxLogs == 3
\* Records the store holds for an operation that queries without end.
MaxStored == 2
\* Quality cycles (runQualityCheck calls) a behaviour may start.
MaxCycles == 3
\* Timer handles setInterval may hand the quality checker in one behaviour.
MaxQualityTimers == 2
\* check() calls the monitor a quality checker started may start.
MaxMonitorChecks == 2
\* The greatest number a failure reason in the store spells.
MaxIndexKey == 2

VARIABLES
  currentStatus,     \* AxiomHealthCheck.currentStatus
  checkIntervalId,   \* AxiomHealthCheck.checkIntervalId (0 is null)
  activeTimers,      \* the runtime's table of live setInterval handles
  nextTimerId,       \* the next handle setInterval returns
  inFlight,          \* ids of check() calls awaiting checkHealth()
  nextCheckId,       \* the id the next check() call gets
  listeners,         \* per event: does emit(event) return or throw
  checkLog,          \* one record per completed check(), in completion order
  lastCall,          \* the operation of the monitor that ran last
  lastIngest,        \* the last AxiomClient.ingestEvents call and its outcome
  lastWrite,         \* the last CancellationLogService.logCancellationAttempt
  lastCancel,        \* the last CancelationService.cancelOrder call
  cancelSeen,        \* <<log behaviour, outcome>> of the calls on that order
  pendingLogs,       \* promises of log writes cancelOrder started, unsettled
  read               \* the read operation of the log service started last:
                     \* its loop variables, the tokens it passed, the
                     \* results the client gave it, and what it returned
VARIABLES
  qualityIntervalId, \* AxiomQualityCheck.checkIntervalId (0 is null)
  qualityTimers,     \* live setInterval handles of the quality checker
  nextQualityTimer,  \* the next handle setInterval returns to it
  qualityCycles,     \* per running runQualityCheck call: the steps it began
  nextCycleId,       \* the id the next runQualityCheck call gets
  lastCycle,         \* the runQualityCheck call that completed last
  lastQualityOp      \* the operation of the quality checker that ran last
VARIABLES
  subscribedAt,      \* the controller's onReady hook: not run (<<>>), or the
                     \* number of checks completed when it registered
  probeOf,           \* per completed check() call, by id: what its probe gave
  statsCall          \* the getCancellationStats call started last: its loop
                     \* variables, the tokens it passed, what it returned

healthVars == <<currentStatus, checkIntervalId, activeTimers, nextTimerId,
                inFlight, nextCheckId, listeners, checkLog, lastCall>>

ingestVars == <<lastIngest, lastWrite>>

cancelVars == <<lastCancel, cancelSeen, pendingLogs>>

readVars == <<read>>

qualityVars == <<qualityIntervalId, qualityTimers, nextQualityTimer,
                 qualityCycles, nextCycleId, lastCycle, lastQualityOp>>

controllerVars == <<subscribedAt>>

traceVars == <<probeOf>>

statsVars == <<statsCall>>

extraVars == <<controllerVars, traceVars, statsVars>>

vars == <<healthVars, ingestVars, cancelVars, readVars, qualityVars, extraVars>>

\* ------------------------------------------------------- health-check.ts
HEALTHY == "healthy"
UNHEALTHY == "unhealthy"
UNKNOWN == "unknown"
HealthStatus == {HEALTHY, UNHEALTHY, UNKNOWN}

\* HealthCheckEvent: the healthy / unhealthy events carry the same strings
\* as the statuses.
STATUS_CHANGED == "status-changed"
HealthCheckEvent == {STATUS_CHANGED, HEALTHY, UNHEALTHY}

\* What awaiting axiomClient.checkHealth() can give check().
ProbeOutcomes == {"true", "false", "raise"}

\* What the listeners registered for an event make emit(event) do.
ListenerKinds == {"returns", "throws"}

Notification(event, payload) == [event |-> event, payload |-> payload]

\* emit(event) calls the listeners synchronously; a listener that throws
\* makes emit throw.
emitThrows(L, event) == L[event] = "throws"

\* TryBlock with the comparison of line 97 dropped: every check notifies.
TryBlockNoCompare(cur, probe, L) ==
  IF probe = "raise"
  THEN [status |-> cur, emitted |-> <<>>, threw |-> TRUE, listenerThrew |-> FALSE]
  ELSE
    LET newStatus == IF probe = "true" THEN HEALTHY ELSE UNHEALTHY
        changed   == Notification(STATUS_CHANGED, <<cur, newStatus>>)
        specific  == Notification(newStatus, <<>>)
    IN  IF emitThrows(L, STATUS_CHANGED)
        THEN [status |-> newStatus, emitted |-> <<changed>>,
              threw |-> TRUE, listenerThrew |-> TRUE]
        ELSE [status |-> newStatus, emitted |-> <<changed, specific>>,
              threw |-> emitThrows(L, newStatus),
              listenerThrew |-> emitThrows(L, newStatus)]

\* The try block of check(): lines 91-114.
TryBlock(cur, probe, L) ==
  IF probe = "raise"
  THEN [status |-> cur, emitted |-> <<>>, threw |-> TRUE, listenerThrew |-> FALSE]
  ELSE
    LET newStatus == IF probe = "true" THEN HEALTHY ELSE UNHEALTHY
        changed   == Notification(STATUS_CHANGED, <<cur, newStatus>>)
        specific  == Notification(newStatus, <<>>)
    IN  IF newStatus # cur
        THEN IF emitThrows(L, STATUS_CHANGED)
             THEN [status |-> newStatus, emitted |-> <<changed>>,
                   threw |-> TRUE, listenerThrew |-> TRUE]
             ELSE [status |-> newStatus, emitted |-> <<changed, specific>>,
                   threw |-> emitThrows(L, newStatus),
                   listenerThrew |-> emitThrows(L, newStatus)]
        ELSE [status |-> cur, emitted |-> <<>>, threw |-> FALSE,
              listenerThrew |-> FALSE]

\* The catch block of check(): lines 115-119.
CatchBlock(t, L) ==
  [status        |-> UNHEALTHY,
   emitted       |-> Append(t.emitted, Notification(UNHEALTHY, <<>>)),
   raised        |-> emitThrows(L, UNHEALTHY),
   returned      |-> IF emitThrows(L, UNHEALTHY) THEN "none" ELSE UNHEALTHY,
   listenerThrew |-> t.listenerThrew \/ emitThrows(L, UNHEALTHY)]

\* check() from the point where the probe has settled.
check(cur, probe, L) ==
  LET t == TryBlock(cur, probe, L)
  IN  IF t.threw
      THEN CatchBlock(t, L)
      ELSE [status |-> t.status, emitted |-> t.emitted, raised |-> FALSE,
            returned |-> t.status, listenerThrew |-> FALSE]

Call(op, wasRunning) == [op |-> op, wasRunning |-> wasRunning]

\* check() up to its await: the probe is started and the call suspends.
CanBeginCheck(budget) ==
  /\ nextCheckId <= budget
  /\ Cardinality(inFlight) < MaxInFlight

BeginCheck ==
  /\ inFlight' = inFlight \cup {nextCheckId}
  /\ nextCheckId' = nextCheckId + 1

\* A caller invokes check() directly.
ManualCheck(budget) ==
  /\ CanBeginCheck(budget)
  /\ BeginCheck
  /\ lastCall' = Call("check", checkIntervalId # 0)
  /\ UNCHANGED <<currentStatus, checkIntervalId, activeTimers, nextTimerId,
                 listeners, checkLog>>
  /\ UNCHANGED <<ingestVars, cancelVars, readVars, qualityVars, extraVars>>

\* The probe of the in-flight check id settles and check() runs to its end.
ResumeCheck(id, probe) ==
  LET r == check(currentStatus, probe, listeners)
  IN  /\ currentStatus' = r.status
      /\ inFlight' = inFlight \ {id}
      /\ checkLog' = Append(checkLog,
           [probe |-> probe, oldStatus |-> currentStatus,
            status |-> r.status, emitted |-> r.emitted, raised |-> r.raised,
            returned |-> r.returned, listenerThrew |-> r.listenerThrew])
      /\ lastCall' = Call("resume", checkIntervalId # 0)
      /\ UNCHANGED <<checkIntervalId, activeTimers, nextTimerId,
                     nextCheckId, listeners>>
      /\ UNCHANGED <<ingestVars, cancelVars, readVars, qualityVars,
                     controllerVars, statsVars>>

CheckResume ==
  \E id \in inFlight, probe \in ProbeOutcomes :
    /\ ResumeCheck(id, probe)
    /\ UNCHANGED traceVars

\* The same step, with the probe result kept under the id of the call.
TracedResume ==
  \E id \in inFlight, probe \in ProbeOutcomes :
    /\ ResumeCheck(id, probe)
    /\ probeOf' = [i \in DOMAIN probeOf \cup {id} |->
                     IF i = id THEN probe ELSE probeOf[i]]

\* start() without the guard of lines 51-53: every call checks and schedules.
startUnguarded ==
  /\ CanBeginCheck(MaxChecks)
  /\ nextTimerId <= MaxTimers
  /\ BeginCheck
  /\ checkIntervalId' = nextTimerId
  /\ activeTimers' = activeTimers \cup {nextTimerId}
  /\ nextTimerId' = nextTimerId + 1
  /\ lastCall' = Call("start", checkIntervalId # 0)
  /\ UNCHANGED <<currentStatus, listeners, checkLog>>
  /\ UNCHANGED <<ingestVars, cancelVars, readVars, qualityVars, extraVars>>

\* start(): lines 50-62.
start ==
  /\ IF checkIntervalId # 0
     THEN /\ lastCall' = Call("start", TRUE)
          /\ UNCHANGED <<currentStatus, checkIntervalId, activeTimers,
                         nextTimerId, inFlight, nextCheckId, listeners,
                         checkLog>>
     ELSE /\ CanBeginCheck(MaxChecks)
          /\ nextTimerId <= MaxTimers
          /\ BeginCheck
          /\ checkIntervalId' = nextTimerId
          /\ activeTimers' = activeTimers \cup {nextTimerId}
          /\ nextTimerId' = nextTimerId + 1
          /\ lastCall' = Call("start", FALSE)
          /\ UNCHANGED <<currentStatus, listeners, checkLog>>
  /\ UNCHANGED <<ingestVars, cancelVars, readVars, qualityVars, extraVars>>

\* stop() that also resets the status to unknown.
stopResetsStatus ==
  /\ IF checkIntervalId # 0
     THEN /\ activeTimers' = activeTimers \ {checkIntervalId}
          /\ checkIntervalId' = 0
     ELSE UNCHANGED <<checkIntervalId, activeTimers>>
  /\ currentStatus' = UNKNOWN
  /\ lastCall' = Call("stop", checkIntervalId # 0)
  /\ UNCHANGED <<nextTimerId, inFlight, nextCheckId, listeners, checkLog>>
  /\ UNCHANGED <<ingestVars, cancelVars, readVars, qualityVars, extraVars>>

\* stop() that forgets the handle without clearInterval (line 70 dropped).
stopKeepsTimer ==
  /\ checkIntervalId' = 0
  /\ lastCall' = Call("stop", checkIntervalId # 0)
  /\ UNCHANGED <<currentStatus, activeTimers, nextTimerId, inFlight,
                 nextCheckId, listeners, checkLog>>
  /\ UNCHANGED <<ingestVars, cancelVars, readVars, qualityVars, extraVars>>

\* stop(): lines 68-75.
stop ==
  /\ IF checkIntervalId # 0
     THEN /\ activeTimers' = activeTimers \ {checkIntervalId}
          /\ checkIntervalId' = 0
     ELSE UNCHANGED <<checkIntervalId, activeTimers>>
  /\ lastCall' = Call("stop", checkIntervalId # 0)
  /\ UNCHANGED <<currentStatus, nextTimerId, inFlight, nextCheckId,
                 listeners, checkLog>>
  /\ UNCHANGED <<ingestVars, cancelVars, readVars, qualityVars, extraVars>>

\* A live interval timer fires its callback, () => this.check(): line 59.
TimerFires(budget) ==
  \E t \in activeTimers :
    /\ CanBeginCheck(budget)
    /\ BeginCheck
    /\ lastCall' = Call("tick", checkIntervalId # 0)
    /\ UNCHANGED <<currentStatus, checkIntervalId, activeTimers, nextTimerId,
                   listeners, checkLog>>
    /\ UNCHANGED <<ingestVars, cancelVars, readVars, qualityVars, extraVars>>

TimerTick == TimerFires(MaxChecks)

\* on(event, listener) / removeAllListeners(event), inherited from
\* EventEmitter: the monitor's subscribers come and go.
SetListener ==
  \E e \in HealthCheckEvent, k \in ListenerKinds :
    /\ listeners[e] # k
    /\ listeners' = [listeners EXCEPT ![e] = k]
    /\ lastCall' = Call("on", checkIntervalId # 0)
    /\ UNCHANGED <<currentStatus, checkIntervalId, activeTimers, nextTimerId,
                   inFlight, nextCheckId, checkLog>>
    /\ UNCHANGED <<ingestVars, cancelVars, readVars, qualityVars, extraVars>>

InitHealth ==
  /\ currentStatus = UNKNOWN
  /\ checkIntervalId = 0
  /\ activeTimers = {}
  /\ nextTimerId = 1
  /\ inFlight = {}
  /\ nextCheckId = 1
  /\ listeners = [e \in HealthCheckEvent |-> "returns"]
  /\ checkLog = <<>>
  /\ lastCall = Call("new", FALSE)

NextHealth ==
  \/ start
  \/ stop
  \/ TimerTick
  \/ ManualCheck(MaxChecks)
  \/ CheckResume
  \/ SetListener

\* ------------------------------------------------------- axiom/client.ts
\* An ingested event stands for one JSON record of the batch.
EventPool == {"evtA", "evtB"}

Batches == UNION { [1..n -> EventPool] : n \in 0..MaxEvents }

\* What awaiting axiom.ingest(dataset, events) can do: return, or throw an
\* Error whose message may be empty.
BackendOutcomes ==
  { [ok |-> TRUE, message |-> ""],
    [ok |-> FALSE, message |-> "timeout"],
    [ok |-> FALSE, message |-> ""] }

IngestResult(ingested, failed, failures) ==
  [ingested |-> ingested, failed |-> failed, failures |-> failures]

NoResult == IngestResult(0, 0, <<>>)

\* error.message || "Unknown error": line 79.
CapturedError(message) == IF message # "" THEN message ELSE "Unknown error"

\* ingestEvents with the catch block rethrowing, as queryWithAPL does.
ingestEventsRethrows(events, backend) ==
  IF backend.ok
  THEN [raised |-> FALSE, value |-> IngestResult(Len(events), 0, <<>>)]
  ELSE [raised |-> TRUE, value |-> NoResult]

\* AxiomClient.ingestEvents from the point where axiom.ingest has settled,
\* lines 64-81. events is the caller's array as it stands at that point:
\* events.length is read in lines 68 and 78, after the await.
ingestEvents(events, backend) ==
  IF backend.ok
  THEN [raised |-> FALSE, value |-> IngestResult(Len(events), 0, <<>>)]
  ELSE [raised |-> FALSE,
        value |-> IngestResult(0, Len(events),
                     << [error |-> CapturedError(backend.message)] >>)]

\* A caller hands a batch to the client: ingestEvents runs to the await of
\* line 62, where axiom.ingest has been given the events. The call made
\* before has returned.
IngestEvents ==
  /\ lastIngest.called => lastIngest.returned
  /\ \E events \in Batches :
       lastIngest' = [called |-> TRUE, returned |-> FALSE, events |-> events]
  /\ UNCHANGED <<lastWrite, healthVars, cancelVars, readVars, qualityVars, extraVars>>

\* axiom.ingest settles and ingestEvents resumes, in its try or its catch.
\* The method holds a reference to the caller's array, not a copy, so what
\* the array holds at the resumption is an input of this step: the batch as
\* it was passed (the one call site in src/, cancellation-log.service.ts
\* line 44, leaves it so) or any other contents the caller has given it
\* since. lastIngest.events is the array as the resumed method reads it.
IngestSettle ==
  /\ lastIngest.called
  /\ ~lastIngest.returned
  /\ \E backend \in BackendOutcomes, events \in Batches :
       lastIngest' = [called |-> TRUE, returned |-> TRUE,
                      events |-> events, backend |-> backend,
                      out |-> ingestEvents(events, backend)]
  /\ UNCHANGED <<lastWrite, healthVars, cancelVars, readVars, qualityVars, extraVars>>

\* ------------------------------------------ axiom/cancellation-log.service.ts
\* new Date().toISOString() at the time of the call.
Now == "now"

\* The IAxiomClient the log service is built on: the AxiomClient above, or
\* an implementation whose ingestEvents rejects.
ClientKinds == {"axiom", "raises"}

clientIngest(client, events, backend) ==
  IF client = "raises"
  THEN [raised |-> TRUE, value |-> NoResult]
  ELSE ingestEvents(events, backend)

\* { ...log, timestamp: log.timestamp || now, _time: now }: lines 35-39.
logWithTimestamp(log) ==
  [k \in DOMAIN log \cup {"_time"} |->
     IF k = "_time" THEN Now
     ELSE IF k = "timestamp"
          THEN (IF log.timestamp # "" THEN log.timestamp ELSE Now)
          ELSE log[k]]

\* logCancellationAttempt without its try/catch: a rejected ingest escapes.
logCancellationAttemptNoCatch(log, client, backend) ==
  LET batch == << logWithTimestamp(log) >>
      r     == clientIngest(client, batch, backend)
  IN  [batches  |-> << batch >>,
       raised   |-> r.raised,
       returned |-> IF r.raised THEN FALSE ELSE r.value.ingested > 0]

\* CancellationLogService.logCancellationAttempt: lines 32-54.
logCancellationAttempt(log, client, backend) ==
  LET batch == << logWithTimestamp(log) >>
      r     == clientIngest(client, batch, backend)
  IN  [batches  |-> << batch >>,
       raised   |-> FALSE,
       returned |-> IF r.raised THEN FALSE ELSE r.value.ingested > 0]

\* -------------------------------------------------- cancelation.service.ts
\* Money is counted in thousandths, so that a tenth of an amount with two
\* decimals is a whole number.
Reais(whole) == whole * 1000

\* 500.00, 1000.00, 1000.01 and 1500.00.
Amounts == {Reais(500), Reais(1000), Reais(1000) + 10, Reais(1500)}

Orders == [id : {"A1"}, totalAmount : Amounts, status : {"PENDING", "CANCELED"}]

\* An optional field: <<>> when absent, <<v>> when present.
None == <<>>
Some(v) == <<v>>

\* What the ICancellationLogService given to the constructor does with a
\* log: there is none; its promise resolves true or false; its promise
\* rejects; the call throws before returning a promise; its promise never
\* settles.
LogBehaviours ==
  {"absent", "resolvesTrue", "resolvesFalse", "rejects", "throws", "never"}

PromiseBehaviours == {"resolvesTrue", "resolvesFalse", "rejects", "never"}

\* canCancelOrder with a strict comparison: 1000.00 is refused.
canCancelOrderStrict(order) == order.totalAmount < Reais(1000)

\* canCancelOrder that also looks at the status of the order.
canCancelOrderChecksStatus(order) ==
  order.totalAmount <= Reais(1000) /\ order.status # "CANCELED"

\* canCancelOrder: lines 28-31.
canCancelOrder(order) == order.totalAmount <= Reais(1000)

\* The CancellationLog built without the failure reason it was given.
BuildLogDropsReason(logData) ==
  [orderId       |-> logData.orderId,
   totalAmount   |-> logData.totalAmount,
   orderStatus   |-> logData.orderStatus,
   success       |-> logData.success,
   message       |-> logData.message,
   timestamp     |-> Now,
   tax           |-> IF logData.success /\ logData.tax # None
                     THEN logData.tax ELSE None,
   failureReason |-> None]

\* A string that is present and not empty: the truthiness of an optional
\* string.
Truthy(text) == text # None /\ text[1] # ""

\* The CancellationLog built at lines 129-146: the tax is added when it is
\* not undefined (line 139), the failure reason when it is truthy (line 144).
BuildLog(logData) ==
  [orderId       |-> logData.orderId,
   totalAmount   |-> logData.totalAmount,
   orderStatus   |-> logData.orderStatus,
   success       |-> logData.success,
   message       |-> logData.message,
   timestamp     |-> Now,
   tax           |-> IF logData.success /\ logData.tax # None
                     THEN logData.tax ELSE None,
   failureReason |-> IF ~logData.success /\ Truthy(logData.failureReason)
                     THEN logData.failureReason ELSE None]

\* The private logCancellationAttempt without its try/catch: a log service
\* that throws makes the method throw.
logAttemptNoTry(logData, behaviour) ==
  IF behaviour = "absent"
  THEN [threw |-> FALSE, calls |-> <<>>, promise |-> "none"]
  ELSE [threw   |-> behaviour = "throws",
        calls   |-> << BuildLog(logData) >>,
        promise |-> IF behaviour = "throws" THEN "none" ELSE behaviour]

\* The private logCancellationAttempt writing successful attempts only.
logAttemptOnlySuccess(logData, behaviour) ==
  IF behaviour = "absent" \/ ~logData.success
  THEN [threw |-> FALSE, calls |-> <<>>, promise |-> "none"]
  ELSE [threw   |-> FALSE,
        calls   |-> << BuildLog(logData) >>,
        promise |-> IF behaviour = "throws" THEN "none" ELSE behaviour]

\* The private CancelationService.logCancellationAttempt: lines 113-160.
\* The promise the log service returns is given a rejection handler and is
\* not awaited.
logAttempt(logData, behaviour) ==
  IF behaviour = "absent"
  THEN [threw |-> FALSE, calls |-> <<>>, promise |-> "none"]
  ELSE [threw   |-> FALSE,
        calls   |-> << BuildLog(logData) >>,
        promise |-> IF behaviour = "throws" THEN "none" ELSE behaviour]

LogData(result, order, orderStatus, failureReason) ==
  [success |-> result.success, message |-> result.message, tax |-> result.tax,
   orderId |-> order.id, totalAmount |-> order.totalAmount,
   orderStatus |-> orderStatus, failureReason |-> failureReason]

CancelResult(success, message, tax, order) ==
  [success |-> success, message |-> message, tax |-> tax, order |-> order]

\* cancelOrder testing the status before the amount.
cancelOrderStatusFirst(order, behaviour) ==
  LET result ==
        IF order.status = "CANCELED"
        THEN CancelResult(FALSE, "Pedido ja esta cancelado", None, None)
        ELSE IF ~canCancelOrder(order)
        THEN CancelResult(FALSE,
               "Nao e possivel cancelar pedidos com valor acima de R$ 1.000,00",
               None, None)
        ELSE CancelResult(TRUE, "Pedido cancelado com sucesso",
               Some(order.totalAmount \div 10),
               Some([order EXCEPT !.status = "CANCELED"]))
      logged ==
        IF order.status = "CANCELED"
        THEN logAttempt(LogData(result, order, order.status,
                                Some("Pedido ja cancelado")),
                        behaviour)
        ELSE IF ~canCancelOrder(order)
        THEN logAttempt(LogData(result, order, order.status,
                                Some("Valor acima do limite permitido")),
                        behaviour)
        ELSE logAttempt(LogData(result, order, "CANCELED", None), behaviour)
  IN  [raised   |-> logged.threw,
       result   |-> result,
       logCalls |-> logged.calls,
       promise  |-> logged.promise]

\* cancelOrder: lines 38-106. The value is what the call gives its caller
\* (raised, result) with the log calls it made and the promise it left
\* behind.
cancelOrder(order, behaviour) ==
  LET result ==
        IF ~canCancelOrder(order)
        THEN CancelResult(FALSE,
               "Nao e possivel cancelar pedidos com valor acima de R$ 1.000,00",
               None, None)
        ELSE IF order.status = "CANCELED"
        THEN CancelResult(FALSE, "Pedido ja esta cancelado", None, None)
        ELSE CancelResult(TRUE, "Pedido cancelado com sucesso",
               Some(order.totalAmount \div 10),
               Some([order EXCEPT !.status = "CANCELED"]))
      logged ==
        IF ~canCancelOrder(order)
        THEN logAttempt(LogData(result, order, order.status,
                                Some("Valor acima do limite permitido")),
                        behaviour)
        ELSE IF order.status = "CANCELED"
        THEN logAttempt(LogData(result, order, order.status,
                                Some("Pedido ja cancelado")),
                        behaviour)
        ELSE logAttempt(LogData(result, order, "CANCELED", None), behaviour)
  IN  [raised   |-> logged.threw,
       result   |-> result,
       logCalls |-> logged.calls,
       promise  |-> logged.promise]

\* A caller (the POST /cancel handler) cancels an order; the service was
\* built with a log service of the given behaviour.
CancelOrder ==
  \E order \in Orders, behaviour \in LogBehaviours :
    LET c == cancelOrder(order, behaviour)
        outcome == [raised |-> c.raised, result |-> c.result]
    IN  /\ c.promise # "none" => Len(pendingLogs) < MaxPending
        /\ lastCancel' = [called |-> TRUE, order |-> order,
                          behaviour |-> behaviour, raised |-> c.raised,
                          result |-> c.result, logCalls |-> c.logCalls,
                          promise |-> c.promise]
        /\ cancelSeen' =
             IF lastCancel.called /\ lastCancel.order = order
             THEN cancelSeen \cup {<<behaviour, outcome>>}
             ELSE {<<behaviour, outcome>>}
        /\ pendingLogs' = IF c.promise # "none"
                          THEN Append(pendingLogs, c.promise)
                          ELSE pendingLogs
        /\ UNCHANGED <<healthVars, ingestVars, readVars, qualityVars, extraVars>>

RemoveAt(seq, i) == SubSeq(seq, 1, i - 1) \o SubSeq(seq, i + 1, Len(seq))

\* A pending log write settles; a rejection goes to the handler of lines
\* 154-156, which reports it on console.error.
LogWriteSettle ==
  \E i \in DOMAIN pendingLogs :
    /\ pendingLogs[i] # "never"
    /\ pendingLogs' = RemoveAt(pendingLogs, i)
    /\ UNCHANGED <<lastCancel, cancelSeen, healthVars, ingestVars, readVars, qualityVars, extraVars>>

\* A caller writes a log through the log service directly: the method
\* copies the log into the record of lines 35-39 and runs to the await of
\* line 44, where the client has been given the batch of that one record.
\* The call made before has returned.
LogCancellationAttempt ==
  /\ lastWrite.called => lastWrite.returned
  /\ \E order \in Orders, stamp \in {"", "earlier"}, client \in ClientKinds :
       LET log == [BuildLog(LogData(cancelOrder(order, "absent").result,
                                    order, order.status, None))
                     EXCEPT !.timestamp = stamp]
       IN  lastWrite' = [called |-> TRUE, returned |-> FALSE, log |-> log,
                         client |-> client,
                         batches |-> << << logWithTimestamp(log) >> >>]
  /\ UNCHANGED <<lastIngest, healthVars, cancelVars, readVars, qualityVars, extraVars>>

\* The client's ingestEvents settles and the method resumes at line 45, or
\* in its catch.
LogAttemptSettle ==
  /\ lastWrite.called
  /\ ~lastWrite.returned
  /\ \E backend \in BackendOutcomes :
       lastWrite' = [called |-> TRUE, returned |-> TRUE,
                     log |-> lastWrite.log, client |-> lastWrite.client,
                     batches |-> lastWrite.batches, backend |-> backend,
                     out |-> logCancellationAttempt(lastWrite.log,
                                                    lastWrite.client, backend)]
  /\ UNCHANGED <<lastIngest, healthVars, cancelVars, readVars, qualityVars, extraVars>>

\* ------------------------------ cancellation-log.service.ts: read path
\* The dataset name the constructor falls back to: line 22.
DatasetName == "inteli"

\* An order above the limit, as a caller of the log service may log it.
TestOrderAbove ==
  [id |-> "A1", totalAmount |-> Reais(1500), status |-> "PENDING"]

\* The orders whose cancellation attempts are in the store: two cancelled
\* with success, one refused for its amount, one refused as cancelled.
StoredOrders ==
  { [id |-> "A1", totalAmount |-> Reais(500), status |-> "PENDING"],
    [id |-> "A2", totalAmount |-> Reais(1000), status |-> "PENDING"],
    [id |-> "A1", totalAmount |-> Reais(1500), status |-> "PENDING"],
    [id |-> "A1", totalAmount |-> Reais(500), status |-> "CANCELED"] }

\* A record of the dataset that has no success flag.
ForeignRecord ==
  [orderId |-> "A1", totalAmount |-> Reais(500), message |-> "imported"]

\* The records a query can match: the logs cancelOrder writes for the stored
\* orders, and the record without a flag.
StoredLogs ==
  {cancelOrder(o, "resolvesTrue").logCalls[1] : o \in StoredOrders}
    \cup {ForeignRecord}

Min(a, b) == IF a <= b THEN a ELSE b

Max(a, b) == IF a >= b THEN a ELSE b

\* array.slice(0, end), line 208: the elements before the index end, where
\* a negative end counts back from the end of the array.
SliceTo(array, end) ==
  SubSeq(array, 1, IF end < 0 THEN Max(Len(array) + end, 0)
                   ELSE Min(end, Len(array)))

SeqsUpTo(S, n) == UNION {[1..k -> S] : k \in 0..n}

\* The query text `['<dataset>'] | limit <limit>` of lines 69, 90 and 110.
AplQuery(limit) == [dataset |-> DatasetName, limit |-> limit]

\* The limit getCancellationStats writes into its query: line 110.
StatsLimit == 1000

\* What AxiomClient.queryWithAPL (client.ts 92-111) gives the n-th query of
\* an operation: the error of the SDK, rethrown, or the result of the SDK.
\* The store honours the limit of the query text in each result and names
\* the next page in the continuation token when it has one.
QueryRaises == [raised |-> TRUE]

QueryResult(matches, token) ==
  [raised |-> FALSE, matches |-> matches, continuationToken |-> token]

queryStore(store, pageLen, n) ==
  {QueryRaises} \cup
  { QueryResult(m, t) :
      m \in SeqsUpTo(store, pageLen), t \in {None, Some(n + 1)} }

queryWithAPL(aplQuery, n) ==
  queryStore(StoredLogs, Min(MaxPageLen, aplQuery.limit), n)

\* log.success === flag, for a record that may have no flag.
IsFlag(log, flag) == "success" \in DOMAIN log /\ log.success = flag

\* The filter of getFailedCancellations written as !log.success.
filterFailedFalsy(logs) == SelectSeq(logs, LAMBDA log : ~IsFlag(log, TRUE))

\* The filters of lines 74 and 95.
filterSuccessful(logs) == SelectSeq(logs, LAMBDA log : IsFlag(log, TRUE))

filterFailed(logs) == SelectSeq(logs, LAMBDA log : IsFlag(log, FALSE))

RECURSIVE Sum(_)
Sum(numbers) ==
  IF numbers = <<>> THEN 0 ELSE Head(numbers) + Sum(Tail(numbers))

\* log.tax || 0, log.totalAmount || 0, log.failureReason || 'Unknown'.
TaxOf(log) ==
  IF "tax" \in DOMAIN log /\ log.tax # None THEN log.tax[1] ELSE 0

AmountOf(log) == IF "totalAmount" \in DOMAIN log THEN log.totalAmount ELSE 0

ReasonOf(log) ==
  IF "failureReason" \in DOMAIN log /\ Truthy(log.failureReason)
  THEN log.failureReason[1] ELSE "Unknown"

\* A quotient of two numbers, kept as the pair; 0 is 0 / 1.
Frac(num, den) == [num |-> num, den |-> den]

\* failureReasonCounts is a plain object (line 135), so its property names
\* meet those of Object.prototype. The names it inherits a function under:
InheritedKeys ==
  {"constructor", "hasOwnProperty", "isPrototypeOf", "propertyIsEnumerable",
   "toLocaleString", "toString", "valueOf", "__defineGetter__",
   "__defineSetter__", "__lookupGetter__", "__lookupSetter__"}

\* The accessor it inherits: read, it gives the prototype; assigned a
\* value that is not an object, it does nothing and no property is made.
ProtoKey == "__proto__"

\* A property name that is a canonical array index: such names are
\* enumerated first, in ascending order.
IsIndexKey(key) == \E n \in 0..MaxIndexKey : ToString(n) = key

\* The index keys among the reasons from n upwards, ascending.
RECURSIVE IndexKeys(_, _)
IndexKeys(seq, n) ==
  IF n > MaxIndexKey THEN <<>>
  ELSE (IF \E i \in DOMAIN seq : seq[i] = ToString(n)
        THEN << ToString(n) >> ELSE <<>>)
       \o IndexKeys(seq, n + 1)

\* The values of a sequence in the order of their first occurrence.
RECURSIVE Distinct(_)
Distinct(seq) ==
  IF seq = <<>> THEN <<>>
  ELSE LET init == Distinct(SubSeq(seq, 1, Len(seq) - 1))
           last == seq[Len(seq)]
       IN  IF \E i \in DOMAIN init : init[i] = last
           THEN init ELSE Append(init, last)

\* The keys Object.entries(failureReasonCounts) yields, line 140: the index
\* keys in ascending order, then the other keys in the order the reduce of
\* lines 132-135 created them; __proto__ is never created.
ObjectKeys(reasons) ==
  IndexKeys(reasons, 0)
    \o Distinct(SelectSeq(reasons,
                          LAMBDA r : ~IsIndexKey(r) /\ r # ProtoKey))

\* counts[reason] after the reduce of lines 132-135. `counts[reason] || 0`
\* is 0 for a name the object does not have, so the value is the number of
\* occurrences; for an inherited name it is the inherited function, and the
\* value is the text of that function with a 1 appended per occurrence.
Count(seq, x) ==
  LET n == Len(SelectSeq(seq, LAMBDA y : y = x))
  IN  IF x \in InheritedKeys THEN [textOf |-> x, ones |-> n] ELSE n

\* count > maxCount of line 141: a count that is such a text converts to
\* NaN, and the comparison is false.
CountAbove(reasons, key, maxCount) ==
  key \notin InheritedKeys /\ Count(reasons, key) > maxCount

\* The forEach of lines 139-144: the first reason with a count above all the
\* counts before it.
RECURSIVE PickTop(_, _, _, _)
PickTop(keys, reasons, topFailureReason, maxCount) ==
  IF keys = <<>> THEN topFailureReason
  ELSE IF CountAbove(reasons, Head(keys), maxCount)
  THEN PickTop(Tail(keys), reasons, Some(Head(keys)),
               Count(reasons, Head(keys)))
  ELSE PickTop(Tail(keys), reasons, topFailureReason, maxCount)

\* The statistics of lines 115-154 from the logs and its two filtered lists.
StatsOf(logs, successfulLogs, failedLogs) ==
  LET totalAttempts == Len(logs)
      successfulCancellations == Len(successfulLogs)
      failedCancellations == Len(failedLogs)
      totalTaxCollected ==
        Sum([i \in DOMAIN successfulLogs |-> TaxOf(successfulLogs[i])])
      totalOrderAmount == Sum([i \in DOMAIN logs |-> AmountOf(logs[i])])
      failureReasons == [i \in DOMAIN failedLogs |-> ReasonOf(failedLogs[i])]
  IN  [totalAttempts           |-> totalAttempts,
       successfulCancellations |-> successfulCancellations,
       failedCancellations     |-> failedCancellations,
       successRate             |-> IF totalAttempts > 0
                                   THEN Frac(successfulCancellations,
                                             totalAttempts)
                                   ELSE Frac(0, 1),
       averageTax              |-> IF successfulCancellations > 0
                                   THEN Frac(totalTaxCollected,
                                             successfulCancellations)
                                   ELSE Frac(0, 1),
       totalTaxCollected       |-> totalTaxCollected,
       averageOrderAmount      |-> IF totalAttempts > 0
                                   THEN Frac(totalOrderAmount, totalAttempts)
                                   ELSE Frac(0, 1),
       topFailureReason        |-> PickTop(ObjectKeys(failureReasons),
                                           failureReasons, None, 0)]

\* The statistics with the failed list left unfiltered.
computeStatsFailedUnfiltered(logs) ==
  StatsOf(logs, filterSuccessful(logs), logs)

\* The statistics with the attempts counted over the flagged records only.
computeStatsFlaggedOnly(logs) ==
  StatsOf(SelectSeq(logs, LAMBDA log : "success" \in DOMAIN log),
          filterSuccessful(logs), filterFailed(logs))

\* getCancellationStats once the logs are fetched: lines 115-154.
computeStats(logs) ==
  StatsOf(logs, filterSuccessful(logs), filterFailed(logs))

\* A failed attempt written through the log service without a reason.
FailedNoReason ==
  BuildLog(LogData(cancelOrder(TestOrderAbove, "absent").result,
                   TestOrderAbove, TestOrderAbove.status, None))

\* A failed attempt written through the log service with a reason of the
\* caller's: failureReason is any string.
FailedWith(reason) == [FailedNoReason EXCEPT !.failureReason = Some(reason)]

\* Reasons other than the two cancelOrder writes: the empty string, names
\* every object has, and numerals.
OtherReasons ==
  {"", "toString", ProtoKey} \cup {ToString(n) : n \in 1..MaxIndexKey}

\* The records the store may hold in the window of getCancellationStats.
StatsLogs ==
  { cancelOrder(o, "resolvesTrue").logCalls[1] :
      o \in {o \in StoredOrders : o.id = "A1"} }
    \cup {FailedNoReason, ForeignRecord}
    \cup {FailedWith(reason) : reason \in OtherReasons}

ListOps == {"getSuccessfulCancellations", "getFailedCancellations"}

ReadOps == ListOps \cup {"getCancellationStats"}

\* What an operation returns once queryCancellationLogs has returned logs.
Completed(op, logs) ==
  IF op = "getSuccessfulCancellations" THEN filterSuccessful(logs)
  ELSE IF op = "getFailedCancellations" THEN filterFailed(logs)
  ELSE computeStats(logs)

\* An operation at its first query: no result yet, no token.
NewRead(op, limit, query) ==
  [phase |-> "running", op |-> op, limit |-> limit, query |-> query,
   allResults |-> <<>>, continuationToken |-> None,
   passed |-> <<>>, results |-> <<>>, raised |-> FALSE, value |-> None]

\* One pass of the body of the do-while loop of queryCancellationLogs, lines
\* 190-213, for the helper's limit argument and the result of the query. The
\* limit counts when it is truthy (line 207): a limit of 0 is no limit, and
\* a negative limit is reached by every length. The loop goes on while the
\* token is truthy (line 211): a result whose status has no token, or an
\* empty one, has continuationToken None.
LoopPass(limit, allResults, result) ==
  LET all == allResults \o result.matches
      hit == limit # None /\ limit[1] # 0 /\ Len(all) >= limit[1]
  IN  [allResults        |-> IF hit THEN SliceTo(all, limit[1]) ELSE all,
       continuationToken |-> result.continuationToken,
       again             |-> ~hit /\ result.continuationToken # None]

\* A failed query answered with the logs fetched so far.
queryCatchReturnsPartial(r) ==
  [r EXCEPT !.phase = "done", !.value = Some(Completed(r.op, r.allResults))]

\* A query raises: the catch of lines 214-217 raises a new error, which the
\* list operations let through and the catch of getCancellationStats (lines
\* 156-161) raises again.
queryCatch(r) ==
  [r EXCEPT !.phase = "done", !.raised = TRUE]

\* A caller starts getSuccessfulCancellations or getFailedCancellations with
\* a limit, or getCancellationStats. The operation started before has
\* completed.
StartRead ==
  /\ read.phase # "running"
  /\ \/ \E op \in ListOps, limit \in 1..MaxLimit :
          read' = NewRead(op, Some(limit), AplQuery(limit))
     \/ read' = NewRead("getCancellationStats", None, AplQuery(StatsLimit))
  /\ UNCHANGED <<healthVars, ingestVars, cancelVars, qualityVars, extraVars>>

\* queryCancellationLogs resumed with what the query it awaited gave. The
\* three callers give queryCancellationLogs no limit argument (lines 72, 93,
\* 113), and their query text holds the word limit, so fullQuery is the
\* query (lines 177-179).
AfterQuery(r, result) ==
  IF result.raised THEN queryCatch(r)
  ELSE LET pass == LoopPass(None, r.allResults, result)
           next == [r EXCEPT !.allResults = pass.allResults,
                             !.continuationToken = pass.continuationToken]
       IN  IF pass.again THEN next
           ELSE [next EXCEPT !.phase = "done",
                             !.value = Some(Completed(next.op,
                                                      next.allResults))]

\* The query the operation awaits settles; the token it was called with and
\* its result are kept.
QueryPage ==
  /\ read.phase = "running"
  /\ Len(read.passed) < MaxQueries
  /\ \E result \in queryWithAPL(read.query, Len(read.passed) + 1) :
       read' = AfterQuery(
                 [read EXCEPT !.passed = Append(@, read.continuationToken),
                              !.results = Append(@, result)],
                 result)
  /\ UNCHANGED <<healthVars, ingestVars, cancelVars, qualityVars, extraVars>>

\* The same step with no history kept and no end to the queries, against a
\* store that holds at most MaxStored records but may answer every query
\* with a token, each one other than the token before.
LoopQuery ==
  /\ read.phase = "running"
  /\ \E result \in queryWithAPL(read.query,
                               IF read.continuationToken = Some(1)
                               THEN 1 ELSE 0) :
       /\ ~result.raised =>
            Len(read.allResults) + Len(result.matches) <= MaxStored
       /\ read' = AfterQuery(read, result)
  /\ UNCHANGED <<healthVars, ingestVars, cancelVars, qualityVars, extraVars>>

\* A caller starts getCancellationStats on a window of the store that holds
\* at most MaxLogs records; the call made before has completed.
StatsCall ==
  /\ statsCall.phase # "running"
  /\ statsCall' = NewRead("getCancellationStats", None, AplQuery(StatsLimit))
  /\ UNCHANGED <<healthVars, ingestVars, cancelVars, readVars, qualityVars,
                 controllerVars, traceVars>>

\* The query that call awaits (line 188, under the await of line 113)
\* settles: it raises, or gives a page of the records of the window.
StatsPage ==
  /\ statsCall.phase = "running"
  /\ Len(statsCall.passed) < MaxQueries
  /\ \E result \in queryStore(StatsLogs,
                               Min(MaxLogs - Len(statsCall.allResults),
                                   statsCall.query.limit),
                               Len(statsCall.passed) + 1) :
       statsCall' = AfterQuery(
                      [statsCall EXCEPT
                         !.passed = Append(@, statsCall.continuationToken)],
                      result)
  /\ UNCHANGED <<healthVars, ingestVars, cancelVars, readVars, qualityVars,
                 controllerVars, traceVars>>

\* ------------------------------------------- index.ts: AxiomQualityCheck
\* The five steps of runQualityCheck in the order of lines 163-175.
QualitySteps ==
  << "checkHealthEndpoint", "testSuccessfulCancellation",
     "testFailedCancellation", "checkDataConsistency", "checkStatistics" >>

\* The orders the second and third step post to /cancel.
TestOrder(whole) ==
  [id |-> "test", totalAmount |-> Reais(whole), status |-> "PENDING"]

\* A stored successful record that lacks required fields.
PartialRecord == [orderId |-> "A1", success |-> TRUE]

RequiredFields ==
  {"orderId", "totalAmount", "orderStatus", "success", "message", "timestamp"}

\* What the world gives a step: the API answers or the request fails; the
\* direct probe of the client; what the read operations of the log service
\* return or that they raise.
StepInputs(step) ==
  IF step = "checkHealthEndpoint"
  THEN {[api |-> "up", healthy |-> TRUE], [api |-> "up", healthy |-> FALSE],
        [api |-> "down"]}
  ELSE IF step \in {"testSuccessfulCancellation", "testFailedCancellation"}
  THEN {[api |-> "up"], [api |-> "down"]}
  ELSE IF step = "checkDataConsistency"
  THEN {[isHealthy |-> FALSE]} \cup
       {[isHealthy |-> TRUE, raised |-> TRUE]} \cup
       { [isHealthy |-> TRUE, raised |-> FALSE, logs |-> logs] :
           logs \in { <<>>, <<PartialRecord>>,
                      filterSuccessful(<<
                        cancelOrder(TestOrder(500),
                                    "resolvesTrue").logCalls[1] >>) } }
  ELSE {[raised |-> TRUE]} \cup
       { [raised |-> FALSE, stats |-> computeStats(logs)] :
           logs \in { <<>>, <<ForeignRecord>>,
                      << cancelOrder(TestOrder(500),
                                     "resolvesTrue").logCalls[1] >> } }

\* Does the step throw on what it was given: lines 192-209 (health
\* endpoint), 214-253 (successful cancellation), 258-297 (failed
\* cancellation), 302-360 (data consistency), 365-405 (statistics).
StepThrows(step, input) ==
  IF step = "checkHealthEndpoint"
  THEN input.api = "down" \/ ~input.healthy
  ELSE IF step = "testSuccessfulCancellation"
  THEN input.api = "down"
       \/ ~cancelOrder(TestOrder(500), "resolvesTrue").result.success
  ELSE IF step = "testFailedCancellation"
  THEN input.api = "down"
       \/ cancelOrder(TestOrder(1500), "resolvesTrue").result.success
  ELSE IF step = "checkDataConsistency"
  THEN \/ ~input.isHealthy
       \/ input.raised
       \/ /\ Len(input.logs) > 0
          /\ \E field \in RequiredFields : field \notin DOMAIN input.logs[1]
  ELSE \/ input.raised
       \/ input.stats.totalAttempts
            # input.stats.successfulCancellations
              + input.stats.failedCancellations
       \/ /\ input.stats.totalAttempts > 0
          /\ \/ input.stats.successRate.num < 0
             \/ input.stats.successRate.num > input.stats.successRate.den

\* A runQualityCheck call at its first await.
NewCycle(origin) ==
  [origin |-> origin, ran |-> << QualitySteps[1] >>, threw |-> <<>>,
   done |-> FALSE, failed |-> "none", raised |-> FALSE]

\* runQualityCheck with a catch around each step: a step that throws is
\* reported and the next step runs.
runQualityCheckCatchPerStep(cycle, stepThrew) ==
  LET settled == [cycle EXCEPT !.threw = Append(@, stepThrew)]
  IN  IF Len(cycle.ran) = Len(QualitySteps)
      THEN [settled EXCEPT !.done = TRUE]
      ELSE [settled EXCEPT
              !.ran = Append(@, QualitySteps[Len(cycle.ran) + 1])]

\* runQualityCheck, lines 157-187, resumed when the step it awaits has
\* settled: a step that throws takes it to the catch of lines 180-185,
\* which reports the error and returns; after the last step it returns;
\* otherwise it begins the next step.
runQualityCheck(cycle, stepThrew) ==
  LET settled == [cycle EXCEPT !.threw = Append(@, stepThrew)]
  IN  IF stepThrew
      THEN [settled EXCEPT !.done = TRUE,
                           !.failed = cycle.ran[Len(cycle.ran)]]
      ELSE IF Len(cycle.ran) = Len(QualitySteps)
      THEN [settled EXCEPT !.done = TRUE]
      ELSE [settled EXCEPT
              !.ran = Append(@, QualitySteps[Len(cycle.ran) + 1])]

\* The cycles in flight with one more, begun by the given caller.
BeginCycle(origin) ==
  [id \in DOMAIN qualityCycles \cup {nextCycleId} |->
     IF id = nextCycleId THEN NewCycle(origin) ELSE qualityCycles[id]]

\* start(), lines 127-141: begins a cycle, then sets the interval timer and
\* stores its handle over the one it held.
QualityStart ==
  /\ nextCycleId <= MaxCycles
  /\ nextQualityTimer <= MaxQualityTimers
  /\ qualityCycles' = BeginCycle("start")
  /\ nextCycleId' = nextCycleId + 1
  /\ qualityTimers' = qualityTimers \cup {nextQualityTimer}
  /\ qualityIntervalId' = nextQualityTimer
  /\ nextQualityTimer' = nextQualityTimer + 1
  /\ lastQualityOp' = "start"
  /\ UNCHANGED lastCycle
  /\ UNCHANGED <<healthVars, ingestVars, cancelVars, readVars, extraVars>>

\* stop(), lines 146-152: clears the timer whose handle it holds.
QualityStop ==
  /\ IF qualityIntervalId # 0
     THEN /\ qualityTimers' = qualityTimers \ {qualityIntervalId}
          /\ qualityIntervalId' = 0
     ELSE UNCHANGED <<qualityTimers, qualityIntervalId>>
  /\ lastQualityOp' = "stop"
  /\ UNCHANGED <<nextQualityTimer, qualityCycles, nextCycleId, lastCycle>>
  /\ UNCHANGED <<healthVars, ingestVars, cancelVars, readVars, extraVars>>

\* A live timer fires: the callback of line 134 begins a cycle.
QualityTick ==
  /\ qualityTimers # {}
  /\ nextCycleId <= MaxCycles
  /\ qualityCycles' = BeginCycle("timer")
  /\ nextCycleId' = nextCycleId + 1
  /\ lastQualityOp' = "tick"
  /\ UNCHANGED <<qualityIntervalId, qualityTimers, nextQualityTimer, lastCycle>>
  /\ UNCHANGED <<healthVars, ingestVars, cancelVars, readVars, extraVars>>

\* A caller invokes runQualityCheck() directly: the method is not private.
\* It begins a cycle and touches neither the timers nor the handle.
QualityRun ==
  /\ nextCycleId <= MaxCycles
  /\ qualityCycles' = BeginCycle("call")
  /\ nextCycleId' = nextCycleId + 1
  /\ lastQualityOp' = "run"
  /\ UNCHANGED <<qualityIntervalId, qualityTimers, nextQualityTimer, lastCycle>>
  /\ UNCHANGED <<healthVars, ingestVars, cancelVars, readVars, extraVars>>

\* The step a cycle awaits settles and runQualityCheck resumes.
StepSettle ==
  \E id \in DOMAIN qualityCycles :
    LET cycle == qualityCycles[id]
        step == cycle.ran[Len(cycle.ran)]
    IN  \E input \in StepInputs(step) :
          LET after == runQualityCheck(cycle, StepThrows(step, input))
          IN  /\ IF after.done
                 THEN /\ lastCycle' = after
                      /\ qualityCycles' =
                           [c \in DOMAIN qualityCycles \ {id} |->
                              qualityCycles[c]]
                 ELSE /\ qualityCycles' =
                           [qualityCycles EXCEPT ![id] = after]
                      /\ UNCHANGED lastCycle
              /\ lastQualityOp' = "settle"
              /\ UNCHANGED <<qualityIntervalId, qualityTimers,
                             nextQualityTimer, nextCycleId>>
              /\ UNCHANGED <<healthVars, ingestVars, cancelVars, readVars, extraVars>>

\* ------------------------------------------------------- specifications
InitIngest ==
  /\ lastIngest = [called |-> FALSE]
  /\ lastWrite = [called |-> FALSE]

InitCancel ==
  /\ lastCancel = [called |-> FALSE]
  /\ cancelSeen = {}
  /\ pendingLogs = <<>>

\* No read operation has been called.
IdleRead ==
  [phase |-> "idle", op |-> "none", limit |-> None,
   query |-> AplQuery(StatsLimit), allResults |-> <<>>,
   continuationToken |-> None, passed |-> <<>>, results |-> <<>>,
   raised |-> FALSE, value |-> None]

InitRead == read = IdleRead

InitQuality ==
  /\ qualityIntervalId = 0
  /\ qualityTimers = {}
  /\ nextQualityTimer = 1
  /\ qualityCycles = <<>>
  /\ nextCycleId = 1
  /\ lastCycle = [origin |-> "none", ran |-> <<>>, threw |-> <<>>,
                  done |-> FALSE, failed |-> "none", raised |-> FALSE]
  /\ lastQualityOp = "new"

InitExtra ==
  /\ subscribedAt = None
  /\ probeOf = <<>>
  /\ statsCall = IdleRead

Init ==
  /\ InitHealth /\ InitIngest /\ InitCancel /\ InitRead /\ InitQuality
  /\ InitExtra

SpecHealth == Init /\ [][NextHealth]_vars

NextIngest ==
  \/ IngestEvents
  \/ IngestSettle
  \/ LogCancellationAttempt
  \/ LogAttemptSettle

SpecIngest == Init /\ [][NextIngest]_vars

NextCancel ==
  \/ CancelOrder
  \/ LogWriteSettle

SpecCancel == Init /\ [][NextCancel]_vars

NextRead ==
  \/ StartRead
  \/ QueryPage

SpecRead == Init /\ [][NextRead]_vars

\* The read operations with every query the client issues completing.
NextLoop ==
  \/ StartRead
  \/ LoopQuery

SpecLoop == Init /\ [][NextLoop]_vars /\ WF_vars(LoopQuery)

NextStats ==
  \/ StatsCall
  \/ StatsPage

SpecStats == Init /\ [][NextStats]_vars

\* The monitor of a quality checker once the checker is constructed: the
\* initializer of index.ts line 109 calls createAxiomServices(), which
\* builds a monitor and starts it (axiom/index.ts 55-63), so its first
\* probe is in flight and its timer is live.
InitMonitorStarted ==
  /\ currentStatus = UNKNOWN
  /\ checkIntervalId = 1
  /\ activeTimers = {1}
  /\ nextTimerId = 2
  /\ inFlight = {1}
  /\ nextCheckId = 2
  /\ listeners = [e \in HealthCheckEvent |-> "returns"]
  /\ checkLog = <<>>
  /\ lastCall = Call("start", FALSE)

\* The state after new AxiomQualityCheck().
InitChecker ==
  /\ InitMonitorStarted /\ InitIngest /\ InitCancel /\ InitRead
  /\ InitQuality /\ InitExtra

\* The quality checker and the monitor it started, which no method of the
\* checker stops: its timer keeps ticking and its probes return.
NextQuality ==
  \/ QualityStart
  \/ QualityStop
  \/ QualityTick
  \/ QualityRun
  \/ StepSettle
  \/ TimerFires(MaxMonitorChecks)
  \/ CheckResume

SpecQuality == InitChecker /\ [][NextQuality]_vars

\* check() calls made one after another on a fresh monitor that is never
\* started: enough of them to run the probe sequence of Scenario.
Scenario == <<"true", "true", "false", "false", "true">>

\* check() called once the previous call has completed.
SequentialCheck ==
  /\ inFlight = {}
  /\ ManualCheck(Len(Scenario))

NextProbeSeq ==
  \/ SequentialCheck
  \/ CheckResume
  \/ SetListener

SpecProbeSeq == Init /\ [][NextProbeSeq]_vars

\* ------------------------------------------- cancelation.controller.ts
\* The plugin function runs: createAxiomServices() (line 39) builds the
\* monitor and starts it (axiom/index.ts 60-63).
ControllerCreate ==
  /\ lastCall.op = "new"
  /\ start

\* The onReady hook of lines 45-61 runs and registers the listeners of the
\* controller, which log and return.
OnReady ==
  /\ lastCall.op # "new"
  /\ subscribedAt = None
  /\ subscribedAt' = Some(Len(checkLog))
  /\ UNCHANGED <<healthVars, ingestVars, cancelVars, readVars, qualityVars,
                 traceVars, statsVars>>

\* The application from the registration of the plugin on: the hook runs
\* once the plugins are loaded, the probes return when the network answers.
NextController ==
  \/ ControllerCreate
  \/ OnReady
  \/ TimerTick
  \/ CheckResume

SpecController == Init /\ [][NextController]_vars

\* The monitor with its checks told apart: started, ticking and checked by
\* hand, with the listeners that return.
NextOverlap ==
  \/ start
  \/ TimerTick
  \/ ManualCheck(MaxChecks)
  \/ TracedResume

SpecOverlap == Init /\ [][NextOverlap]_vars

\* ------------------------------------------------- health monitor: claims
\* The status the spec computes from a probe outcome.
Computed(probe) == IF probe = "true" THEN HEALTHY ELSE UNHEALTHY

\* How many notifications of a check are of the given event.
RECURSIVE CountEvent(_, _)
CountEvent(emitted, event) ==
  IF emitted = <<>> THEN 0
  ELSE (IF Head(emitted).event = event THEN 1 ELSE 0)
       + CountEvent(Tail(emitted), event)

\* The (old, new) pairs of the status-changed notifications of a log.
RECURSIVE ChangesOf(_)
ChangesOf(log) ==
  IF log = <<>> THEN <<>>
  ELSE SelectSeq(Head(log).emitted, LAMBDA n : n.event = STATUS_CHANGED)
       \o ChangesOf(Tail(log))

PayloadsOf(notes) == [i \in DOMAIN notes |-> notes[i].payload]

ProbesOf(log) == [i \in DOMAIN log |-> log[i].probe]

\* C1 (as claimed): in every completed check() whose computed status (true ->
\* healthy, false -> unhealthy, probe raising -> unhealthy) differs from the
\* stored status, the stored status becomes the computed one and exactly one
\* status-changed notification carrying (old, new) is emitted, with exactly
\* one status-specific notification matching the new status.
C1_ChangeNotifiedOnce ==
  \A i \in DOMAIN checkLog :
    LET c == checkLog[i]
        new == Computed(c.probe)
        other == IF new = HEALTHY THEN UNHEALTHY ELSE HEALTHY
    IN  new # c.oldStatus =>
          /\ c.status = new
          /\ CountEvent(c.emitted, STATUS_CHANGED) = 1
          /\ \E k \in DOMAIN c.emitted :
               c.emitted[k] = Notification(STATUS_CHANGED, <<c.oldStatus, new>>)
          /\ CountEvent(c.emitted, new) = 1
          /\ CountEvent(c.emitted, other) = 0

\* C2 (as claimed): a completed check() whose computed status equals the
\* stored status emits no notification at all, whatever the probe outcome.
C2_NoNotificationWhenUnchanged ==
  \A i \in DOMAIN checkLog :
    Computed(checkLog[i].probe) = checkLog[i].oldStatus
      => checkLog[i].emitted = <<>>

\* C3 (as claimed): after the probe results of Scenario on a fresh monitor,
\* exactly two status-changed notifications were emitted, healthy->unhealthy
\* and unhealthy->healthy, and the second true and second false emitted none.
C3_TwoChanges ==
  ProbesOf(checkLog) = Scenario =>
    /\ PayloadsOf(ChangesOf(checkLog))
         = << <<HEALTHY, UNHEALTHY>>, <<UNHEALTHY, HEALTHY>> >>
    /\ checkLog[2].emitted = <<>>
    /\ checkLog[4].emitted = <<>>

\* C3 (amended): in the five checks of Scenario on a fresh monitor, each
\* check is compared with the status stored by the check before it (unknown
\* for the first): it emits one status-changed notification, from that
\* status to its own result, when the two differ, and no notification at
\* all when they are equal. A check stores its result, or unhealthy when
\* one of its listeners raised. So the first check emits unknown->healthy,
\* and a run in which no listener raised emits exactly three, unknown->
\* healthy, healthy->unhealthy and unhealthy->healthy, none of them in the
\* second true or the second false.
C3_ThreeChanges ==
  ProbesOf(checkLog) = Scenario =>
    /\ \A i \in DOMAIN checkLog :
         LET c       == checkLog[i]
             result  == Computed(c.probe)
             changes == SelectSeq(c.emitted,
                                  LAMBDA n : n.event = STATUS_CHANGED)
         IN  /\ c.oldStatus = IF i = 1 THEN UNKNOWN ELSE checkLog[i - 1].status
             /\ changes = IF result # c.oldStatus
                          THEN << Notification(STATUS_CHANGED,
                                               <<c.oldStatus, result>>) >>
                          ELSE <<>>
             /\ result = c.oldStatus => c.emitted = <<>>
             /\ c.status = IF c.listenerThrew THEN UNHEALTHY ELSE result
    /\ (\A i \in DOMAIN checkLog : ~checkLog[i].listenerThrew) =>
         /\ PayloadsOf(ChangesOf(checkLog))
              = << <<UNKNOWN, HEALTHY>>, <<HEALTHY, UNHEALTHY>>,
                   <<UNHEALTHY, HEALTHY>> >>
         /\ checkLog[2].emitted = <<>>
         /\ checkLog[4].emitted = <<>>

C3_Witness ==
  /\ ProbesOf(checkLog) = Scenario
  /\ \A i \in DOMAIN checkLog : ~checkLog[i].listenerThrew
  /\ inFlight = {}
  /\ currentStatus = HEALTHY

\* C4: the status is unknown until a check has completed, and every change
\* of the status, under start(), stop() and check() in any order, is one of
\* unknown->healthy, unknown->unhealthy, healthy->unhealthy,
\* unhealthy->healthy; none leads back to unknown.
AllowedTransitions ==
  { <<UNKNOWN, HEALTHY>>, <<UNKNOWN, UNHEALTHY>>,
    <<HEALTHY, UNHEALTHY>>, <<UNHEALTHY, HEALTHY>> }

C4_StatusTransitions ==
  /\ [](checkLog = <<>> => currentStatus = UNKNOWN)
  /\ [][currentStatus' # currentStatus
          => <<currentStatus, currentStatus'>> \in AllowedTransitions]_vars

C4_Witness ==
  /\ Len(checkLog) >= 2
  /\ checkLog[1].oldStatus = UNKNOWN
  /\ checkLog[2].oldStatus # checkLog[2].status
  /\ lastCall = Call("stop", TRUE)

\* C5 (as claimed): every completed check() returned healthy or unhealthy
\* and raised nothing, whatever the probe and the listeners did.
C5_CheckNeverRaises ==
  \A i \in DOMAIN checkLog :
    /\ ~checkLog[i].raised
    /\ checkLog[i].returned \in {HEALTHY, UNHEALTHY}

\* C6: at most one interval timer is live at any time, and it is the one the
\* monitor holds; start() on a stopped monitor starts exactly one check and
\* one timer; start() on a running monitor starts no check and no timer.
C6_StartIdempotent ==
  /\ [](/\ Cardinality(activeTimers) <= 1
        /\ (checkIntervalId # 0 => activeTimers = {checkIntervalId}))
  /\ [][start =>
          IF checkIntervalId = 0
          THEN /\ nextCheckId' = nextCheckId + 1
               /\ inFlight' = inFlight \cup {nextCheckId}
               /\ activeTimers' = {checkIntervalId'}
               /\ checkIntervalId' # 0
               /\ nextTimerId' = nextTimerId + 1
          ELSE UNCHANGED <<currentStatus, checkIntervalId, activeTimers,
                           nextTimerId, inFlight, nextCheckId, listeners,
                           checkLog>>]_vars

C6_Witness ==
  /\ lastCall = Call("start", TRUE)
  /\ Cardinality(activeTimers) = 1
  /\ nextTimerId = 3

\* C7: stop() leaves no live timer, so a timer starts a check only while the
\* monitor is running; stop() on a stopped monitor changes nothing; start()
\* on a stopped monitor makes it running again.
C7_StopCancels ==
  /\ [][stop =>
          /\ checkIntervalId' = 0
          /\ activeTimers' = {}
          /\ (checkIntervalId = 0 =>
                UNCHANGED <<currentStatus, checkIntervalId, activeTimers,
                            nextTimerId, inFlight, nextCheckId, listeners,
                            checkLog>>)]_vars
  /\ [][TimerTick => checkIntervalId # 0 /\ checkIntervalId \in activeTimers]_vars
  /\ [][nextCheckId' # nextCheckId /\ checkIntervalId = 0
          => lastCall'.op \in {"start", "check"}]_vars
  /\ [][start /\ checkIntervalId = 0
          => checkIntervalId' # 0 /\ checkIntervalId' \in activeTimers']_vars

C7_Witness ==
  /\ lastCall = Call("start", FALSE)
  /\ nextTimerId = 3
  /\ activeTimers = {checkIntervalId}
  /\ Len(checkLog) >= 1

\* ----------------------------------------------- client and log service: claims
\* C8: ingestEvents raises nothing; when the backend accepts the batch the
\* result is ingested = len(events), failed = 0, no failures; when the
\* backend call fails it is ingested = 0, failed = len(events) and one
\* failure holding the error's message ("Unknown error" for an error without
\* one); in both cases ingested + failed = len(events). len(events) is the
\* length of the array the method was given, read when the method returns.
C8_IngestFailsSoft ==
  (lastIngest.called /\ lastIngest.returned) =>
    LET n == Len(lastIngest.events)
        v == lastIngest.out.value
    IN  /\ ~lastIngest.out.raised
        /\ lastIngest.backend.ok =>
             v.ingested = n /\ v.failed = 0 /\ v.failures = <<>>
        /\ ~lastIngest.backend.ok =>
             /\ v.ingested = 0
             /\ v.failed = n
             /\ Len(v.failures) = 1
             /\ lastIngest.backend.message # ""
                  => v.failures[1].error = lastIngest.backend.message
             /\ lastIngest.backend.message = ""
                  => v.failures[1].error = "Unknown error"
        /\ v.ingested + v.failed = n

C8_Witness ==
  /\ lastIngest.called
  /\ lastIngest.returned
  /\ ~lastIngest.backend.ok
  /\ Len(lastIngest.events) >= 2
  /\ lastIngest.out.value.failed = Len(lastIngest.events)
  /\ lastIngest.out.value.failures = << [error |-> "timeout"] >>

\* C9: logCancellationAttempt raises nothing and hands the client exactly
\* one batch holding exactly one record, the log it was given; it returns
\* true exactly when the client reports at least one ingested event, and
\* false when the client's ingest raises or reports none.
C9_LogWriteFailsSoft ==
  /\ (lastWrite.called /\ ~lastWrite.returned) =>
       /\ Len(lastWrite.batches) = 1
       /\ Len(lastWrite.batches[1]) = 1
       /\ lastWrite.batches[1][1].orderId = lastWrite.log.orderId
  /\ (lastWrite.called /\ lastWrite.returned) =>
       LET out    == lastWrite.out
           report == clientIngest(lastWrite.client, out.batches[1],
                                  lastWrite.backend)
       IN  /\ ~out.raised
           /\ out.batches = lastWrite.batches
           /\ Len(out.batches) = 1
           /\ Len(out.batches[1]) = 1
           /\ out.batches[1][1].orderId = lastWrite.log.orderId
           /\ out.batches[1][1].timestamp # ""
           /\ out.returned = (~report.raised /\ report.value.ingested > 0)
           /\ out.returned
                = (lastWrite.client = "axiom" /\ lastWrite.backend.ok)

C9_Witness ==
  /\ lastWrite.called
  /\ lastWrite.returned
  /\ lastWrite.client = "raises"
  /\ lastWrite.log.timestamp = ""
  /\ lastWrite.out.returned = FALSE
  /\ ~lastWrite.out.raised

\* ------------------------------------------------ cancellation logic: claims
\* C10: the calls of cancelOrder made on one order gave their callers the
\* same outcome whatever the log service did (absent, resolving true or
\* false, rejecting, throwing, never settling), none of them raised, and a
\* call whose log service returned a promise returned with it unsettled.
C10_ResultIndependentOfLogging ==
  /\ \A a, b \in cancelSeen : a[2] = b[2]
  /\ \A a \in cancelSeen : ~a[2].raised
  /\ lastCancel.called =>
       /\ lastCancel.result = cancelOrder(lastCancel.order, "absent").result
       /\ lastCancel.behaviour \in PromiseBehaviours
            => lastCancel.promise = lastCancel.behaviour

C10_Witness ==
  /\ {a[1] : a \in cancelSeen} = LogBehaviours
  /\ lastCancel.called
  /\ lastCancel.result.success
  /\ \E i \in DOMAIN pendingLogs : pendingLogs[i] = "never"

\* C11: every call of cancelOrder, on each of its three outcomes, made
\* exactly one logCancellationAttempt call on the log service when one is
\* configured, with a record carrying the order's id, its amount and the
\* outcome flag of the result; with no log service it made none and raised
\* nothing.
C11_OneLogCallPerCancel ==
  lastCancel.called =>
    IF lastCancel.behaviour = "absent"
    THEN lastCancel.logCalls = <<>> /\ ~lastCancel.raised
    ELSE /\ Len(lastCancel.logCalls) = 1
         /\ lastCancel.logCalls[1].orderId = lastCancel.order.id
         /\ lastCancel.logCalls[1].totalAmount = lastCancel.order.totalAmount
         /\ lastCancel.logCalls[1].success = lastCancel.result.success

C11_Witness ==
  /\ lastCancel.called
  /\ lastCancel.behaviour = "rejects"
  /\ lastCancel.order.status = "CANCELED"
  /\ lastCancel.order.totalAmount = Reais(500)
  /\ Len(lastCancel.logCalls) = 1
  /\ ~lastCancel.logCalls[1].success

\* C12: cancelOrder on an order of at most 1000.00 whose status is not
\* cancelled succeeds, with a fee of exactly a tenth of the amount and an
\* order of the same id and amount whose status is cancelled.
C12_EligibleOrderCancelled ==
  (/\ lastCancel.called
   /\ lastCancel.order.totalAmount <= Reais(1000)
   /\ lastCancel.order.status # "CANCELED") =>
    /\ ~lastCancel.raised
    /\ lastCancel.result.success
    /\ lastCancel.result.tax # None
    /\ lastCancel.result.tax[1] * 10 = lastCancel.order.totalAmount
    /\ lastCancel.result.order
         = Some([id          |-> lastCancel.order.id,
                 totalAmount |-> lastCancel.order.totalAmount,
                 status      |-> "CANCELED"])

C12_Witness ==
  /\ lastCancel.called
  /\ lastCancel.order.totalAmount = Reais(1000)
  /\ lastCancel.order.status = "PENDING"
  /\ lastCancel.result.tax = Some(Reais(100))

\* C13: cancelOrder on an order above 1000.00 fails with no fee and no
\* order, whatever its id and status; eligibility is decided by the amount
\* alone, and the boundary is inclusive: 1000.00 is eligible and 1000.01 is
\* not.
AmountLimitMessage ==
  "Nao e possivel cancelar pedidos com valor acima de R$ 1.000,00"

C13_AmountLimit ==
  /\ \A o1, o2 \in Orders :
       o1.totalAmount = o2.totalAmount
         => canCancelOrder(o1) = canCancelOrder(o2)
  /\ \A o \in Orders : canCancelOrder(o) = (o.totalAmount <= Reais(1000))
  /\ lastCancel.called =>
       /\ lastCancel.order.totalAmount > Reais(1000) =>
            /\ ~lastCancel.result.success
            /\ lastCancel.result.tax = None
            /\ lastCancel.result.order = None
            /\ lastCancel.result.message = AmountLimitMessage
       /\ lastCancel.order.totalAmount <= Reais(1000) =>
            lastCancel.result.message # AmountLimitMessage

C13_Witness ==
  /\ lastCancel.called
  /\ lastCancel.order.totalAmount = Reais(1000) + 10
  /\ lastCancel.order.status = "PENDING"
  /\ ~lastCancel.result.success
  /\ \E b \in LogBehaviours :
       cancelOrder([lastCancel.order EXCEPT !.totalAmount = Reais(1000)],
                   b).result.success

\* C14: cancelOrder on an already cancelled order of at most 1000.00 fails
\* with the already-cancelled message and logs the already-cancelled
\* failure reason; the amount-limit reason is logged exactly when the amount
\* is above 1000.00, so it wins for a cancelled order above the limit.
C14_AlreadyCancelled ==
  lastCancel.called =>
    /\ (/\ lastCancel.order.status = "CANCELED"
        /\ lastCancel.order.totalAmount <= Reais(1000)) =>
         /\ ~lastCancel.result.success
         /\ lastCancel.result.message = "Pedido ja esta cancelado"
         /\ \A i \in DOMAIN lastCancel.logCalls :
              lastCancel.logCalls[i].failureReason
                = Some("Pedido ja cancelado")
    /\ \A i \in DOMAIN lastCancel.logCalls :
         (lastCancel.logCalls[i].failureReason
            = Some("Valor acima do limite permitido"))
           = (lastCancel.order.totalAmount > Reais(1000))

C14_Witness ==
  /\ lastCancel.called
  /\ lastCancel.order.status = "CANCELED"
  /\ lastCancel.order.totalAmount = Reais(1500)
  /\ Len(lastCancel.logCalls) = 1
  /\ lastCancel.logCalls[1].failureReason
       = Some("Valor acima do limite permitido")

\* C20: every record cancelOrder handed to the log service carries exactly
\* one of the fee and the failure reason: the fee and no reason when its flag
\* is true, a reason and no fee when its flag is false.
C20_TaxXorReason ==
  lastCancel.called =>
    \A i \in DOMAIN lastCancel.logCalls :
      LET log == lastCancel.logCalls[i]
      IN  /\ (log.tax # None) # (log.failureReason # None)
          /\ log.success => log.tax # None /\ log.failureReason = None
          /\ ~log.success => log.tax = None /\ log.failureReason # None

C20_Witness ==
  /\ lastCancel.called
  /\ Len(lastCancel.logCalls) = 1
  /\ lastCancel.logCalls[1].success
  /\ lastCancel.logCalls[1].tax = Some(Reais(50))
  /\ lastCancel.logCalls[1].failureReason = None

\* ------------------------------------------------ log service reads: claims
\* The records of the results the client returned, in the order fetched.
RECURSIVE Fetched(_)
Fetched(results) ==
  IF results = <<>> THEN <<>>
  ELSE (IF Head(results).raised THEN <<>> ELSE Head(results).matches)
       \o Fetched(Tail(results))

HasBooleanFlag(log) == "success" \in DOMAIN log /\ log.success \in BOOLEAN

Range(seq) == {seq[i] : i \in DOMAIN seq}

\* C15: the statistics getCancellationStats returned over fetched records
\* that all have a boolean flag count every record once: successful plus
\* failed cancellations is the total of attempts, the number fetched.
C15_StatsCountsAddUp ==
  (/\ read.phase = "done"
   /\ read.op = "getCancellationStats"
   /\ ~read.raised
   /\ \A log \in Range(Fetched(read.results)) : HasBooleanFlag(log)) =>
    LET stats == read.value[1]
    IN  /\ stats.successfulCancellations + stats.failedCancellations
             = stats.totalAttempts
        /\ stats.totalAttempts = Len(Fetched(read.results))

C15_Witness ==
  /\ read.phase = "done"
  /\ read.op = "getCancellationStats"
  /\ read.value # None
  /\ Len(read.results) = 2
  /\ Len(Fetched(read.results)) = 2
  /\ read.value[1].successfulCancellations = 1
  /\ read.value[1].failedCancellations = 1

\* C16: a read operation one of whose queries raised, the first or a later
\* one, raised to its caller and returned no statistics and no records.
C16_QueryFailureRaises ==
  (/\ read.phase = "done"
   /\ \E i \in DOMAIN read.results : read.results[i].raised) =>
    /\ read.raised
    /\ read.value = None

C16_Witness ==
  /\ read.phase = "done"
  /\ read.op = "getSuccessfulCancellations"
  /\ Len(read.results) = 2
  /\ read.results[1].matches # <<>>
  /\ read.results[2].raised
  /\ read.raised

\* C17: a list operation that returned ran the query that depends on the
\* limit alone and returned, in fetch order, exactly the fetched records
\* whose flag is true (getSuccessfulCancellations) or false
\* (getFailedCancellations); of the fetched records, each one with a
\* boolean flag is in exactly one of the two lists, each one without is in
\* neither; and it queried once per page up to the first page without a
\* token, never again to fill the list up to the limit.
C17_ListsPartitionFetched ==
  (/\ read.phase = "done"
   /\ read.op \in ListOps
   /\ ~read.raised) =>
    LET fetched == Fetched(read.results)
        wanted == (read.op = "getSuccessfulCancellations")
        successful == Completed("getSuccessfulCancellations", fetched)
        failed == Completed("getFailedCancellations", fetched)
    IN  /\ read.query = [dataset |-> DatasetName, limit |-> read.limit[1]]
        /\ read.value
             = Some(SelectSeq(fetched,
                              LAMBDA log : /\ HasBooleanFlag(log)
                                           /\ log.success = wanted))
        /\ read.value = Some(IF wanted THEN successful ELSE failed)
        /\ \A log \in Range(fetched) :
             IF HasBooleanFlag(log)
             THEN (log \in Range(successful)) # (log \in Range(failed))
             ELSE log \notin Range(successful) /\ log \notin Range(failed)
        /\ Len(read.passed) = Len(read.results)
        /\ \A i \in DOMAIN read.results :
             (read.results[i].continuationToken = None)
               = (i = Len(read.results))

C17_Witness ==
  /\ read.phase = "done"
  /\ read.op = "getFailedCancellations"
  /\ read.limit = Some(2)
  /\ ~read.raised
  /\ Len(read.results) = 2
  /\ Len(Fetched(read.results)) = 2
  /\ Fetched(read.results)[1] = ForeignRecord
  /\ IsFlag(Fetched(read.results)[2], FALSE)
  /\ Len(read.value[1]) = 1

\* C18 (as claimed): a list operation called with limit L that returned,
\* returned at most L records.
C18_AtMostLimit ==
  (/\ read.phase = "done"
   /\ read.op \in ListOps
   /\ ~read.raised) =>
    Len(read.value[1]) <= read.limit[1]

\* ---------------------------------------------------- quality checker: claims
\* Steps begun so far are the first steps of QualitySteps, in order, and no
\* step was begun after one that threw.
InOrderUpToFirstFailure(cycle) ==
  /\ Len(cycle.ran) <= Len(QualitySteps)
  /\ cycle.ran = SubSeq(QualitySteps, 1, Len(cycle.ran))
  /\ \A i \in DOMAIN cycle.threw : cycle.threw[i] => i = Len(cycle.ran)

\* C19: a quality cycle runs the five steps in order and stops at the first
\* step that fails; a completed cycle ran all five or ended with the step
\* that failed; runQualityCheck raised nothing; the completion of a cycle,
\* failed or not, leaves the timers and the stored handle as they are, and a
\* live timer can start the next cycle after a failed one.
C19_CycleStopsAtFirstFailure ==
  /\ [](\A id \in DOMAIN qualityCycles :
          /\ InOrderUpToFirstFailure(qualityCycles[id])
          /\ Len(qualityCycles[id].threw) = Len(qualityCycles[id].ran) - 1)
  /\ [](lastCycle.done =>
          /\ InOrderUpToFirstFailure(lastCycle)
          /\ Len(lastCycle.threw) = Len(lastCycle.ran)
          /\ ~lastCycle.raised
          /\ IF lastCycle.threw[Len(lastCycle.ran)]
             THEN lastCycle.failed = lastCycle.ran[Len(lastCycle.ran)]
             ELSE lastCycle.failed = "none" /\ lastCycle.ran = QualitySteps)
  /\ [][StepSettle => UNCHANGED <<qualityIntervalId, qualityTimers>>]_vars
  /\ []((/\ lastCycle.done
         /\ lastCycle.failed # "none"
         /\ qualityTimers # {}
         /\ nextCycleId <= MaxCycles) => ENABLED QualityTick)

C19_Witness ==
  /\ lastCycle.done
  /\ lastCycle.failed = "testFailedCancellation"
  /\ Len(lastCycle.ran) = 3
  /\ lastQualityOp = "tick"
  /\ \E id \in DOMAIN qualityCycles :
       /\ qualityCycles[id].origin = "timer"
       /\ Len(qualityCycles[id].ran) = 1

\* ------------------------------------------------------ further claims
\* C21 (as claimed): a list operation with limit L that returned passed no
\* token to its first query and to each later query the token of the result
\* before it, accumulated the results in order, queried again only after a
\* result with a token that left fewer than L records accumulated, and
\* returned from the first L records accumulated when L were reached.
C21_PaginationStopsAtLimit ==
  (/\ read.phase = "done"
   /\ read.op \in ListOps
   /\ ~read.raised) =>
    LET fetched == Fetched(read.results)
        L == read.limit[1]
    IN  /\ Len(read.passed) = Len(read.results)
        /\ \A i \in DOMAIN read.passed :
             read.passed[i] = IF i = 1 THEN None
                              ELSE read.results[i - 1].continuationToken
        /\ read.allResults = SubSeq(fetched, 1, Min(L, Len(fetched)))
        /\ \A i \in 1..(Len(read.results) - 1) :
             /\ read.results[i].continuationToken # None
             /\ Len(Fetched(SubSeq(read.results, 1, i))) < L

\* C24 (as claimed): the order status in every record cancelOrder handed to
\* the log service is the status of the order it was called with.
C24_LoggedStatusIsInputStatus ==
  lastCancel.called =>
    \A i \in DOMAIN lastCancel.logCalls :
      lastCancel.logCalls[i].orderStatus = lastCancel.order.status

\* C26 (as claimed): stop() leaves the status as it is, and a check that
\* was in flight when stop() was called and completes before any other call
\* on the monitor changes no status and emits no notification.
C26_SilentAfterStop ==
  /\ [][stop => currentStatus' = currentStatus]_vars
  /\ [][(lastCall.op = "stop" /\ lastCall'.op = "resume") =>
          /\ currentStatus' = currentStatus
          /\ checkLog'[Len(checkLog')].emitted = <<>>]_vars

\* C27 (as claimed): a completed check whose probe returned true and one of
\* whose listeners raised left the status healthy and emitted no unhealthy
\* notification.
C27_ListenerErrorKeepsStatus ==
  \A i \in DOMAIN checkLog :
    (checkLog[i].probe = "true" /\ checkLog[i].listenerThrew) =>
      /\ checkLog[i].status = HEALTHY
      /\ CountEvent(checkLog[i].emitted, UNHEALTHY) = 0

\* C28 (as claimed): a timer of the quality checker starts a cycle only
\* while the checker holds a handle, that is, not after a stop() that no
\* start() has followed.
C28_NoCycleAfterStop ==
  [][QualityTick => qualityIntervalId # 0]_vars

\* C25 (as claimed): once every check() call has completed, the stored
\* status is the one computed from the probe of the call that started last.
C25_NewestProbeWins ==
  (inFlight = {} /\ nextCheckId > 1) =>
    currentStatus = Computed(probeOf[nextCheckId - 1])

\* C29 (as claimed): no check of the controller's monitor that completed
\* before the onReady hook registered the subscribers changed the status.
C29_NoTransitionBeforeSubscription ==
  \A i \in DOMAIN checkLog :
    (subscribedAt = None \/ i <= subscribedAt[1]) =>
      checkLog[i].status = checkLog[i].oldStatus

\* How many records of the logs satisfy the test.
CountWhere(logs, Test(_)) == Len(SelectSeq(logs, Test))

\* A record carries a failure reason.
CarriesReason(l) == "failureReason" \in DOMAIN l /\ l.failureReason # None

\* The failure reasons of the failed records that carry one.
CarriedReasons(logs) ==
  { log.failureReason[1] :
      log \in {l \in Range(logs) : IsFlag(l, FALSE) /\ CarriesReason(l)} }

\* How many failed records carry the reason.
ReasonCount(logs, reason) ==
  CountWhere(logs, LAMBDA l : /\ IsFlag(l, FALSE)
                              /\ CarriesReason(l)
                              /\ l.failureReason = Some(reason))

\* C22: in the statistics, a record without a boolean flag counts in the
\* total of attempts and in the average order amount but in neither the
\* successful nor the failed cancellations: the total less the two is the
\* number of records without a boolean flag.
C22_UnflaggedCountedInTotalOnly ==
  (statsCall.phase = "done" /\ ~statsCall.raised) =>
    LET logs == statsCall.allResults
        stats == statsCall.value[1]
    IN  /\ stats.totalAttempts = Len(logs)
        /\ stats.successfulCancellations
             = CountWhere(logs, LAMBDA l : IsFlag(l, TRUE))
        /\ stats.failedCancellations
             = CountWhere(logs, LAMBDA l : IsFlag(l, FALSE))
        /\ stats.totalAttempts - stats.successfulCancellations
             - stats.failedCancellations
             = CountWhere(logs, LAMBDA l : ~HasBooleanFlag(l))
        /\ Len(logs) > 0 =>
             stats.averageOrderAmount
               = [num |-> Sum([i \in DOMAIN logs |-> logs[i].totalAmount]),
                  den |-> Len(logs)]

C22_Witness ==
  /\ statsCall.phase = "done"
  /\ ~statsCall.raised
  /\ Len(statsCall.passed) = 2
  /\ Len(statsCall.allResults) = 3
  /\ statsCall.allResults[2] = ForeignRecord
  /\ statsCall.value[1].totalAttempts = 3
  /\ statsCall.value[1].successfulCancellations = 1
  /\ statsCall.value[1].failedCancellations = 1

\* C23 (as claimed): topFailureReason is undefined exactly when no record
\* failed; otherwise it is a failure reason carried by a failed record, and
\* no other carried reason occurs more often among the failed records.
C23_TopReasonIsCarriedMode ==
  (statsCall.phase = "done" /\ ~statsCall.raised) =>
    LET logs == statsCall.allResults
        top == statsCall.value[1].topFailureReason
    IN  /\ (top = None) = (CountWhere(logs, LAMBDA l : IsFlag(l, FALSE)) = 0)
        /\ top # None =>
             /\ top[1] \in CarriedReasons(logs)
             /\ \A r \in CarriedReasons(logs) :
                  ReasonCount(logs, top[1]) >= ReasonCount(logs, r)

\* C30 (as claimed): every read operation whose queries all complete
\* eventually returns or raises.
C30_ReadTerminates ==
  (read.phase = "running") ~> (read.phase = "done")

====
